---- MODULE Spec2Model ----
(***************************************************************************)
(* Model of CT_files/anonymize.rs: the command-line DICOM anonymizer.      *)
(* main() splits the --input and --output arguments at commas, zips the    *)
(* two lists, and for every pair opens the input object, replaces five     *)
(* attributes and writes the object to the output path.  Any error (`?`)   *)
(* returns from main and ends the run.                                     *)
(*                                                                         *)
(* Strings the model has to look into (the arguments, the paths, the       *)
(* Study ID) are sequences of one-character strings; all other attribute   *)
(* values are TLA+ strings.                                                *)
(***************************************************************************)
EXTENDS Integers, Sequences, FiniteSets, TLC

\* ------------------------------------------------------------------ bounds

\* The longest comma-separated list given on the command line.
MaxEntries == 2

\* The file names that occur in the arguments; <<>> is the empty path.
Names == { <<>>, <<"a">>, <<"b">> }

\* ------------------------------------------------------- the DICOM objects

TagPatientName     == "0010,0010"
TagPatientID       == "0010,0020"
TagPatientBirth    == "0010,0030"
TagStudyID         == "0020,0010"
TagInstitutionName == "0008,0080"
\* An attribute the program never touches (Modality).
TagModality        == "0008,0060"

TargetTags ==
  { TagPatientName, TagPatientID, TagPatientBirth, TagStudyID, TagInstitutionName }

\* DataElement::new(tag, vr, value): an object maps a tag to its VR and value.
DataElement(tag, vr, value) == [tag |-> tag, vr |-> vr, value |-> value]

\* obj.element(tag) is Ok exactly when the object holds the tag.
HasElement(obj, tag) == tag \in DOMAIN obj

\* obj.element(tag)?.to_str()?: the text of the element's value.
ToStr(obj, tag) == obj[tag].value

\* Mutant of Put: the object is rebuilt from the element and the target
\* attributes only, so an attribute the program does not replace is lost.
PutDroppingOthers(obj, elem) ==
  (elem.tag :> [vr |-> elem.vr, value |-> elem.value])
    @@ [ t \in (DOMAIN obj) \cap TargetTags |-> obj[t] ]

\* obj.put(elem): insert the element, replacing one with the same tag.
Put(obj, elem) == (elem.tag :> [vr |-> elem.vr, value |-> elem.value]) @@ obj

\* A complete object as found in an input file, and the same one lacking a tag.
FullObject(who) ==
  [ t \in TargetTags \cup {TagModality} |->
      CASE t = TagPatientName     -> [vr |-> "PN", value |-> "Name of " \o who]
        [] t = TagPatientID       -> [vr |-> "LO", value |-> "ID of " \o who]
        [] t = TagPatientBirth    -> [vr |-> "DA", value |-> "19700101"]
        [] t = TagStudyID         -> [vr |-> "SH", value |-> <<"S", "7">>]
        [] t = TagInstitutionName -> [vr |-> "LO", value |-> "Clinic of " \o who]
        [] OTHER                  -> [vr |-> "CS", value |-> "CT of " \o who] ]

Without(obj, tag) == [ t \in (DOMAIN obj) \ {tag} |-> obj[t] ]

\* What a path holds: nothing, bytes that are not DICOM, or a DICOM object.
NoObject == [none |-> "none"]
Absent   == [kind |-> "absent",  obj |-> NoObject]
Invalid  == [kind |-> "invalid", obj |-> NoObject]
Dicom(o) == [kind |-> "dicom",   obj |-> o]

\* ------------------------------------------------- splitting and pairing

\* str::split(','): the pieces between the commas; never an empty list.
RECURSIVE SplitFrom(_, _)
SplitFrom(s, piece) ==
  IF s = <<>> THEN << piece >>
  ELSE IF Head(s) = ","
       THEN << piece >> \o SplitFrom(Tail(s), <<>>)
       ELSE SplitFrom(Tail(s), Append(piece, Head(s)))

Split(s) == SplitFrom(s, <<>>)

\* Mutant of Zip: lists of different lengths are refused and give no pair.
ZipSameLengthOnly(xs, ys) ==
  [ k \in 1..(IF Len(xs) = Len(ys) THEN Len(xs) ELSE 0) |-> << xs[k], ys[k] >> ]

\* Iterator::zip(...).collect(): pairs until either list ends.
RECURSIVE Zip(_, _)
Zip(xs, ys) ==
  IF xs = <<>> \/ ys = <<>> THEN <<>>
  ELSE << << Head(xs), Head(ys) >> >> \o Zip(Tail(xs), Tail(ys))

\* Mutant of StreamNext: the list is walked from its end.
StreamNextReversed(items, pos) ==
  [k |-> Len(items) - pos, item |-> items[Len(items) - pos]]

\* files_stream.next(): the item after the `pos` items already taken, and its
\* position in the list.
StreamNext(items, pos) == [k |-> pos + 1, item |-> items[pos + 1]]

\* The command lines of the model: lists of 1..MaxEntries names joined by commas.
RECURSIVE Join(_)
Join(list) ==
  IF Len(list) = 0 THEN <<>>
  ELSE IF Len(list) = 1 THEN Head(list)
  ELSE Head(list) \o <<",">> \o Join(Tail(list))

ArgStrings ==
  { Join(l) : l \in UNION { [1..n -> Names] : n \in 1..MaxEntries } }

\* ------------------------------------------------------ the Study ID

\* A usize as <<high, low>> with value high * 10^6 + low: the range of
\* gen_range exceeds the 32-bit integers of TLC.
Limb == 10^6
Less(m, n) == m[1] < n[1] \/ (m[1] = n[1] /\ m[2] < n[2])

\* The ends of the range 0..100000000000 of gen_range.
RangeStart == << 0, 0 >>
RangeEnd   == << 100000, 0 >>

\* Values the generator is tried with; gen_range keeps those in the range.
Draws == { <<0, 0>>, <<1, 42>>, <<99999, 999999>>, <<100000, 0>> }

GenRange(from, to) == { n \in Draws : ~Less(n, from) /\ Less(n, to) }

DigitChars == << "0", "1", "2", "3", "4", "5", "6", "7", "8", "9" >>

\* The decimal digits of a number below 10^6, most significant first.
RECURSIVE Decimal(_)
Decimal(k) ==
  IF k < 10 THEN << DigitChars[k + 1] >>
  ELSE Append(Decimal(k \div 10), DigitChars[(k % 10) + 1])

Repeat(c, count) == [ i \in 1..count |-> c ]

\* Display for usize: the digits, without leading zeros.
Display(n) ==
  IF n[1] = 0 THEN Decimal(n[2])
  ELSE LET low == Decimal(n[2])
       IN  Decimal(n[1]) \o Repeat("0", 6 - Len(low)) \o low

\* Mutant of StudyIdFormat: "{n: >16}", the '0' flag forgotten, pads with spaces.
StudyIdFormatNoZeroFlag ==
  [fill |-> " ", align |-> ">", zero |-> FALSE, width |-> 16]

\* The format spec of "{n: >016}": fill ' ', align '>', flag '0', width 16.
StudyIdFormat ==
  [fill |-> " ", align |-> ">", zero |-> TRUE, width |-> 16]

\* Formatter::pad_integral for a non-negative integer: with the '0' flag the
\* fill is '0' and the alignment is right, whatever the spec says.
PadIntegral(digits, spec) ==
  IF Len(digits) >= spec.width THEN digits
  ELSE LET fill == IF spec.zero THEN "0" ELSE spec.fill
           align == IF spec.zero THEN ">" ELSE spec.align
           pad == Repeat(fill, spec.width - Len(digits))
       IN  IF align = "<" THEN digits \o pad ELSE pad \o digits

\* format!("{n: >016}")
FormatStudyId(n) == PadIntegral(Display(n), StudyIdFormat)

\* ------------------------------------------------------------- the state

VARIABLES
  input,      \* app_args.input
  output,     \* app_args.output
  fs,         \* the file system: what every path holds
  fs0,        \* the file system when the process started
  files,      \* the zipped list of (input, output) pairs
  taken,      \* how many items files_stream has handed out
  cur,        \* the pair being processed and its position in the list
  obj,        \* the object opened from the input file, as changed so far
  log,        \* the lines written by info!, oldest first
  writes,     \* the files written by write_to_file, oldest first
  pc,         \* where main is
  result      \* "running", then "Ok" or the error main returned

vars == << input, output, fs, fs0, files, taken, cur, obj, log, writes, pc, result >>

\* The exit status of the process for the Result main returned.
ExitCode(res) == IF res = "Ok" THEN 0 ELSE 1

\* The new values of the attributes.
NewPatientName     == "puripuri^2100"
NewPatientId       == "0000123456"
NewPatientBirth    == "200000401"
NewInstitutionName == "FooBar Hospital"

\* Mutant of PatientIdElement: the Patient ID gets its own literal.
PatientIdElementOwnLiteral == DataElement(TagPatientID, "LO", NewPatientId)

\* The elements put into the object.
PatientNameElement     == DataElement(TagPatientName, "PN", NewPatientName)
PatientIdElement       == DataElement(TagPatientID, "LO", NewPatientName)
PatientBirthElement    == DataElement(TagPatientBirth, "DA", NewPatientBirth)
StudyIdElement(id)     == DataElement(TagStudyID, "SH", id)
InstitutionNameElement == DataElement(TagInstitutionName, "LO", NewInstitutionName)

\* The log lines: a phase line names a path, an attribute line a tag and the
\* old and new value shown.
PhaseLine(ev, path) == [ev |-> ev, k |-> cur.k, what |-> path]
AttrLine(tag, old, new) ==
  [ev |-> "attr", k |-> cur.k, what |-> [tag |-> tag, old |-> old, new |-> new]]

InputPath  == cur.item[1]
OutputPath == cur.item[2]

\* What the files hold before the run: "a" a complete object, an object lacking
\* one of the five attributes, or nothing; "b" a complete object, bytes that are
\* not DICOM, or nothing.  The empty path never names a file.
InitialFiles ==
  { [ p \in Names |-> IF p = <<"a">> THEN ca ELSE IF p = <<"b">> THEN cb ELSE Absent ] :
      ca \in { Absent, Dicom(FullObject("a")) }
               \cup { Dicom(Without(FullObject("a"), t)) : t \in TargetTags },
      cb \in { Absent, Invalid, Dicom(FullObject("b")) } }

NoItem == [k |-> 0, item |-> << <<>>, <<>> >>]

Init ==
  /\ input \in ArgStrings
  /\ output \in ArgStrings
  /\ fs \in InitialFiles
  /\ fs0 = fs
  /\ files = <<>>
  /\ taken = 0
  /\ cur = NoItem
  /\ obj = NoObject
  /\ log = <<>>
  /\ writes = <<>>
  /\ pc = "args"
  /\ result = "running"

\* Mutant of Fail: the error is dropped and the loop goes on with the next pair.
FailButContinue(error) ==
  /\ pc' = "next"
  /\ result' = result

\* `?` on an Err: main returns the error.
Fail(error) ==
  /\ pc' = "done"
  /\ result' = error

\* Lines 71-76: split both arguments and zip the lists.
FormPairs ==
  /\ pc = "args"
  /\ files' = Zip(Split(input), Split(output))
  /\ pc' = "next"
  /\ UNCHANGED << input, output, fs, fs0, taken, cur, obj, log, writes, result >>

\* Lines 78-80: the stream hands out the next pair.
NextFile ==
  /\ pc = "next"
  /\ taken < Len(files)
  /\ cur' = StreamNext(files, taken)
  /\ taken' = taken + 1
  /\ log' = log \o << [ev |-> "START", k |-> cur'.k, what |-> cur'.item[1]],
                      [ev |-> "START read", k |-> cur'.k, what |-> cur'.item[1]] >>
  /\ pc' = "open"
  /\ UNCHANGED << input, output, fs, fs0, files, obj, writes, result >>

\* Lines 78 and 133: the stream is exhausted, main returns Ok(()).
Finish ==
  /\ pc = "next"
  /\ taken >= Len(files)
  /\ pc' = "done"
  /\ result' = "Ok"
  /\ UNCHANGED << input, output, fs, fs0, files, taken, cur, obj, log, writes >>

\* Mutant of OpenFile: the output file is created before the input is opened.
OpenFileCreatingOutput ==
  /\ pc = "open"
  /\ IF fs[InputPath].kind = "dicom"
     THEN /\ obj' = fs[InputPath].obj
          /\ log' = Append(log, PhaseLine("END read", InputPath))
          /\ pc' = "name"
          /\ UNCHANGED << result, fs >>
     ELSE /\ Fail("ParseError")
          /\ fs' = [fs EXCEPT ![OutputPath] = Invalid]
          /\ UNCHANGED << obj, log >>
  /\ UNCHANGED << input, output, fs0, files, taken, cur, writes >>

\* Lines 81-82: open and parse the input file.
OpenFile ==
  /\ pc = "open"
  /\ IF fs[InputPath].kind = "dicom"
     THEN /\ obj' = fs[InputPath].obj
          /\ log' = Append(log, PhaseLine("END read", InputPath))
          /\ pc' = "name"
          /\ UNCHANGED result
     ELSE /\ Fail("ParseError")
          /\ UNCHANGED << obj, log >>
  /\ UNCHANGED << input, output, fs, fs0, files, taken, cur, writes >>

\* Mutant of Replace: when the attribute is missing, the object as changed so
\* far is written to the output path before the error is returned.
ReplaceWritingPartial(at, tag, shown, elem, then) ==
  /\ pc = at
  /\ IF HasElement(obj, tag)
     THEN /\ log' = Append(log, AttrLine(tag, ToStr(obj, tag), shown))
          /\ obj' = Put(obj, elem)
          /\ pc' = then
          /\ UNCHANGED << result, fs >>
     ELSE /\ Fail("MissingAttributeError")
          /\ fs' = [fs EXCEPT ![OutputPath] = Dicom(obj)]
          /\ UNCHANGED << obj, log >>
  /\ UNCHANGED << input, output, fs0, files, taken, cur, writes >>

\* One block of lines 90-125: read the old value, log the line, put the element.
Replace(at, tag, shown, elem, then) ==
  /\ pc = at
  /\ IF HasElement(obj, tag)
     THEN /\ log' = Append(log, AttrLine(tag, ToStr(obj, tag), shown))
          /\ obj' = Put(obj, elem)
          /\ pc' = then
          /\ UNCHANGED result
     ELSE /\ Fail("MissingAttributeError")
          /\ UNCHANGED << obj, log >>
  /\ UNCHANGED << input, output, fs, fs0, files, taken, cur, writes >>

\* Lines 91-95.
PatientName ==
  Replace("name", TagPatientName, NewPatientName, PatientNameElement, "id")

\* Lines 98-102.
PatientId ==
  Replace("id", TagPatientID, NewPatientId, PatientIdElement, "birth")

\* Lines 105-110.
PatientBirthDate ==
  Replace("birth", TagPatientBirth, NewPatientBirth, PatientBirthElement, "study")

\* Lines 113-118: the generator is used only when the old value could be read.
StudyId ==
  \E n \in GenRange(RangeStart, RangeEnd) :
    Replace("study", TagStudyID, FormatStudyId(n),
            StudyIdElement(FormatStudyId(n)), "inst")

\* Lines 121-125.
InstitutionName ==
  Replace("inst", TagInstitutionName, NewInstitutionName,
          InstitutionNameElement, "write")

\* Lines 127-130: the object is written to the output path.
WriteFile ==
  /\ pc = "write"
  /\ OutputPath # <<>>
  /\ fs' = [fs EXCEPT ![OutputPath] = Dicom(obj)]
  /\ writes' = Append(writes, [k |-> cur.k, path |-> OutputPath, obj |-> obj])
  /\ log' = log \o << PhaseLine("START write", OutputPath),
                      PhaseLine("END write", OutputPath),
                      PhaseLine("END", InputPath) >>
  /\ pc' = "next"
  /\ UNCHANGED << input, output, fs0, files, taken, cur, obj, result >>

\* Lines 127-128: write_to_file fails.  The file could not be created (always
\* so for the empty path), or it was created and the write stopped part-way.
WriteFileFails ==
  /\ pc = "write"
  /\ log' = Append(log, PhaseLine("START write", OutputPath))
  /\ \/ fs' = fs
     \/ /\ OutputPath # <<>>
        /\ fs' = [fs EXCEPT ![OutputPath] = Invalid]
  /\ Fail("WriteError")
  /\ UNCHANGED << input, output, fs0, files, taken, cur, obj, writes >>

Next ==
  \/ FormPairs
  \/ NextFile
  \/ Finish
  \/ OpenFile
  \/ PatientName
  \/ PatientId
  \/ PatientBirthDate
  \/ StudyId
  \/ InstitutionName
  \/ WriteFile
  \/ WriteFileFails

Spec == Init /\ [][Next]_vars

\* ------------------------------------------------- what the claims speak of

\* The positions of the log lines of pair k, and of its line for a tag.
LinesOf(k) == { i \in 1..Len(log) : log[i].k = k }
AttrLinesOf(k, tag) ==
  { i \in 1..Len(log) : log[i].k = k /\ log[i].ev = "attr" /\ log[i].what.tag = tag }

IsDigit(c) == \E d \in 1..10 : DigitChars[d] = c
DigitValue(c) == (CHOOSE d \in 1..10 : DigitChars[d] = c) - 1

\* The number a string of digits denotes, as <<high, low>>.
RECURSIVE Denotes(_)
Denotes(s) ==
  IF s = <<>> THEN << 0, 0 >>
  ELSE LET front == Denotes(SubSeq(s, 1, Len(s) - 1))
           low == front[2] * 10 + DigitValue(s[Len(s)])
       IN  << front[1] * 10 + (low \div Limb), low % Limb >>

\* A Study ID as the program is to generate it.
WellFormedStudyId(id) ==
  /\ Len(id) = 16
  /\ \A i \in 1..Len(id) : IsDigit(id[i])
  /\ Less(Denotes(id), << 100000, 0 >>)

\* The five attributes of an object hold the anonymized values; `id` is the
\* Study ID generated for it.
AnonymizedWith(o, id) ==
  /\ TargetTags \subseteq DOMAIN o
  /\ o[TagPatientName].value = "puripuri^2100"
  /\ o[TagPatientID].value = "puripuri^2100"
  /\ o[TagPatientBirth].value = "200000401"
  /\ o[TagInstitutionName].value = "FooBar Hospital"
  /\ o[TagStudyID].value = id

Anonymized(o) ==
  /\ TargetTags \subseteq DOMAIN o
  /\ AnonymizedWith(o, o[TagStudyID].value)
  /\ WellFormedStudyId(o[TagStudyID].value)

\* The Study ID strings shown in the log for pair k.
GeneratedFor(k) == { log[i].what.new : i \in AttrLinesOf(k, TagStudyID) }

\* The file system that results from fs0 by the writes made so far.
RECURSIVE Replay(_, _)
Replay(files0, ws) ==
  IF ws = <<>> THEN files0
  ELSE LET before == Replay(files0, SubSeq(ws, 1, Len(ws) - 1))
           w == ws[Len(ws)]
       IN  [before EXCEPT ![w.path] = Dicom(w.obj)]

\* main has just written the output file of the current pair.
JustWritten == pc = "next" /\ cur.k > 0

\* ------------------------------------------------------------------ claims

\* C1: every object written to an output path has Patient Name
\* "puripuri^2100", Patient ID "puripuri^2100" (not "0000123456"), Patient
\* Birth Date "200000401", Institution Name "FooBar Hospital" and, as Study ID,
\* the one string generated for that file, whatever the input held; right after
\* the write the output path holds that object.
C1_OutputHasNewValues ==
  /\ \A i \in 1..Len(writes) :
       /\ Cardinality(GeneratedFor(writes[i].k)) = 1
       /\ \A id \in GeneratedFor(writes[i].k) : AnonymizedWith(writes[i].obj, id)
  /\ JustWritten =>
       /\ fs[OutputPath].kind = "dicom"
       /\ \A id \in GeneratedFor(cur.k) : AnonymizedWith(fs[OutputPath].obj, id)

\* C1 witness: an output has been written for an input whose Patient ID was
\* "ID of b" and whose Study ID was not the generated one.
C1_Witness ==
  /\ JustWritten
  /\ fs0[InputPath].kind = "dicom"
  /\ TargetTags \subseteq DOMAIN fs0[InputPath].obj
  /\ fs0[InputPath].obj[TagPatientID].value = "ID of b"
  /\ fs[OutputPath].obj[TagPatientID].value = "puripuri^2100"
  /\ fs[OutputPath].obj[TagStudyID].value # fs0[InputPath].obj[TagStudyID].value

\* C2: the write of a pair leaves, at the output path, an object with the same
\* tags as the input object and, for every tag other than the five target tags,
\* the same VR and value: no other attribute is added, removed or changed.
C2_OtherAttributesKept ==
  [][ (pc = "write" /\ pc' = "next") =>
        /\ fs'[OutputPath].kind = "dicom"
        /\ fs[InputPath].kind = "dicom"
        /\ DOMAIN fs'[OutputPath].obj = DOMAIN fs[InputPath].obj
        /\ \A t \in (DOMAIN fs[InputPath].obj) \ TargetTags :
             /\ fs'[OutputPath].obj[t].vr = fs[InputPath].obj[t].vr
             /\ fs'[OutputPath].obj[t].value = fs[InputPath].obj[t].value ]_vars

\* C2 witness: an output has been written that carries the Modality of its input.
C2_Witness ==
  /\ JustWritten
  /\ TagModality \in DOMAIN fs[OutputPath].obj
  /\ fs[OutputPath].obj[TagModality].value = "CT of a"
  /\ fs[OutputPath].obj[TagPatientName].value = "puripuri^2100"

\* C3: every Study ID generated (shown in the log and put into the object) has
\* length 16, consists of decimal digits only, and denotes a number n with
\* 0 <= n < 100000000000.
C3_StudyIdWellFormed ==
  /\ \A i \in 1..Len(log) :
       (log[i].ev = "attr" /\ log[i].what.tag = TagStudyID) =>
         WellFormedStudyId(log[i].what.new)
  /\ pc \in {"inst", "write"} => WellFormedStudyId(obj[TagStudyID].value)

\* C3 witness: the largest number of the range and the number 0 have both been
\* formatted in one run.
C3_Witness ==
  /\ \E i \in 1..Len(log) :
       /\ log[i].ev = "attr" /\ log[i].what.tag = TagStudyID
       /\ log[i].what.new = Repeat("0", 5) \o Repeat("9", 11)
  /\ \E i \in 1..Len(log) :
       /\ log[i].ev = "attr" /\ log[i].what.tag = TagStudyID
       /\ log[i].what.new = Repeat("0", 16)

\* The pair k ran to its "[END] <input>" line.
Completed(k) == \E i \in LinesOf(k) : log[i].ev = "END"

\* The output paths of the pairs before pair k.
OutputsBefore(k) == { files[h][2] : h \in 1..(k - 1) }

Min(a, b) == IF a <= b THEN a ELSE b

\* C4 as stated: when pair i fails to open or parse, every earlier pair's output
\* path holds an anonymized object and no output file exists for any pair at or
\* after i: the output path of such a pair holds no file written by the run
\* (a file that was there before the run and was left alone is not counted).
C4_NoLaterOutputExists ==
  (pc = "done" /\ result = "ParseError") =>
    /\ \A j \in 1..(cur.k - 1) :
         /\ fs[files[j][2]].kind = "dicom"
         /\ Anonymized(fs[files[j][2]].obj)
    /\ \A j \in cur.k..Len(files) :
         \/ fs[files[j][2]].kind = "absent"
         \/ /\ fs[files[j][2]] = fs0[files[j][2]]
            /\ \A i \in 1..Len(writes) : writes[i].path # files[j][2]

\* C4 amended: when pair i fails to open or parse, every earlier pair's output
\* path holds an anonymized object, exactly the pairs before i have been
\* written, and the output path of a pair at or after i that is not also the
\* output path of an earlier pair holds what it held before the run.
C4_NoLaterOutputWritten ==
  (pc = "done" /\ result = "ParseError") =>
    /\ \A j \in 1..(cur.k - 1) :
         /\ fs[files[j][2]].kind = "dicom"
         /\ Anonymized(fs[files[j][2]].obj)
    /\ Len(writes) = cur.k - 1
    /\ \A i \in 1..Len(writes) : writes[i].k = i /\ writes[i].path = files[i][2]
    /\ \A j \in cur.k..Len(files) :
         files[j][2] \notin OutputsBefore(cur.k) => fs[files[j][2]] = fs0[files[j][2]]

\* C4 witness: the second pair failed to open after the first was written, and
\* the second pair's output path holds a file.
C4_Witness ==
  /\ pc = "done" /\ result = "ParseError"
  /\ cur.k = 2 /\ Len(writes) = 1
  /\ fs[OutputPath].kind # "absent"

\* C5 as stated: a run that processes all N pairs without error leaves exactly
\* N output files.
C5_ExactlyNFiles ==
  (pc = "done" /\ result = "Ok") =>
    Cardinality({ writes[i].path : i \in 1..Len(writes) }) = Len(files)

\* C5 amended: a run that processes all N pairs without error has written N
\* times, the k-th time to the k-th output path, in list order; every output
\* path then holds a file, and there are as many output files as distinct
\* output paths (N when the output paths differ pairwise).
C5_NWritesInListOrder ==
  (pc = "done" /\ result = "Ok") =>
    /\ Len(writes) = Len(files)
    /\ \A i \in 1..Len(writes) :
         /\ writes[i].k = i
         /\ writes[i].path = files[i][2]
         /\ fs[files[i][2]].kind = "dicom"
    /\ Cardinality({ writes[i].path : i \in 1..Len(writes) })
         = Cardinality({ files[k][2] : k \in 1..Len(files) })

\* C5 witness: two pairs with different output paths have both been written.
C5_Witness ==
  /\ pc = "done" /\ result = "Ok"
  /\ Len(files) = 2
  /\ files[1][2] # files[2][2]
  /\ Len(writes) = 2

\* C6: the run exits with status 0 exactly when every formed pair was processed
\* to its end; otherwise it exits non-zero at the first pair that failed (open or
\* parse, missing attribute, write), and no later pair is opened, logged or
\* written; after the exit nothing happens.
C6_ExitStatus ==
  pc = "done" =>
    /\ result # "running"
    /\ ExitCode(result) = 0 <=>
         \A k \in 1..Len(files) :
           Completed(k) /\ (\E i \in 1..Len(writes) : writes[i].k = k)
    /\ ExitCode(result) # 0 =>
         /\ result \in {"ParseError", "MissingAttributeError", "WriteError"}
         /\ cur.k \in 1..Len(files)
         /\ ~Completed(cur.k)
         /\ \A k \in 1..(cur.k - 1) : Completed(k)
         /\ \A i \in 1..Len(log) : log[i].k <= cur.k
         /\ \A i \in 1..Len(writes) : writes[i].k < cur.k
    /\ ~ENABLED Next

\* C6 witness: the run ended with an error at a pair that is not the last one.
C6_Witness ==
  /\ pc = "done" /\ result = "WriteError"
  /\ cur.k = 1 /\ Len(files) = 2

\* C7: the pairs are formed by position from the comma-split lists: as many as
\* the shorter list has entries, the k-th being (input[k], output[k]); the rest
\* of the longer list is dropped, and an error only ever comes from a formed pair.
C7_PairsByPosition ==
  pc # "args" =>
    LET ins == Split(input)
        outs == Split(output)
        commas(s) == Cardinality({ i \in 1..Len(s) : s[i] = "," })
    IN  /\ Len(ins) = commas(input) + 1
        /\ Len(outs) = commas(output) + 1
        /\ Len(files) = Min(Len(ins), Len(outs))
        /\ \A k \in 1..Len(files) : files[k] = << ins[k], outs[k] >>
        /\ cur.k > 0 => cur.k <= Len(files) /\ cur.item = files[cur.k]
        /\ (pc = "done" /\ result # "Ok") => (cur.k \in 1..Len(files) /\ ~Completed(cur.k))
        /\ (pc = "done" /\ \A k \in 1..Len(files) : Completed(k)) => result = "Ok"

\* C7 witness: the input list is longer than the output list and the run ended
\* without error after the one pair formed.
C7_Witness ==
  /\ pc = "done" /\ result = "Ok"
  /\ Len(Split(input)) = 2 /\ Len(Split(output)) = 1
  /\ Len(files) = 1 /\ Len(writes) = 1

\* C8 as stated: when the object is about to be written, the log holds for each
\* of the five target attributes exactly one line of the pair, showing the value
\* the input object had and the value the object now holds for the attribute.
C8_LogShowsWrittenValues ==
  pc = "write" =>
    \A t \in TargetTags :
      /\ Cardinality(AttrLinesOf(cur.k, t)) = 1
      /\ \A i \in AttrLinesOf(cur.k, t) :
           /\ log[i].what.old = fs[InputPath].obj[t].value
           /\ log[i].what.new = obj[t].value

\* The stages of one pair's pipeline, in the order of the code.
Pipeline ==
  << "START", "START read", "END read", TagPatientName, TagPatientID,
     TagPatientBirth, TagStudyID, TagInstitutionName, "START write", "END write",
     "END" >>

Stage(line) == IF line.ev = "attr" THEN line.what.tag ELSE line.ev

\* C9: the files are processed one at a time in list order: the log lines of
\* pair k are contiguous and the n-th of them is the pipeline's n-th stage, the
\* first line of pair
\* k+1 comes only after the "[END]" line and the write of pair k, and the k-th
\* write is that of pair k.
C9_OneFileAtATime ==
  /\ Len(log) > 0 => log[1].k = 1
  /\ \A i \in 1..(Len(log) - 1) :
       /\ log[i].k <= log[i + 1].k
       /\ log[i + 1].k <= log[i].k + 1
       /\ log[i + 1].k = log[i].k + 1 =>
            /\ log[i].ev = "END"
            /\ Len(writes) >= log[i].k
  /\ \A i \in 1..Len(log) :
       LET nth == Cardinality({ j \in 1..i : log[j].k = log[i].k })
       IN  /\ nth <= Len(Pipeline)
           /\ Stage(log[i]) = Pipeline[nth]
           /\ log[i].k \in 1..Len(files)
           /\ log[i].ev \in {"START", "START read", "END read", "END"} =>
                log[i].what = files[log[i].k][1]
           /\ log[i].ev \in {"START write", "END write"} =>
                log[i].what = files[log[i].k][2]
  /\ \A i \in 1..Len(writes) :
       /\ writes[i].k = i
       /\ \E j \in LinesOf(i) : log[j].ev = "END write"
  /\ \A j \in 1..Len(log) : log[j].ev = "END write" => Len(writes) >= log[j].k

\* C9 witness: the second pair has started after the first one was written.
C9_Witness ==
  /\ Len(writes) = 1
  /\ cur.k = 2
  /\ pc = "write"

\* C10: when a target attribute is missing from the parsed input, the run ends
\* with the error before the write step: nothing has been written for the pair,
\* nothing more happens, and every file is as the earlier pairs' writes left it.
C10_MissingAttributeWritesNothing ==
  /\ pc = "write" => TargetTags \subseteq DOMAIN fs[InputPath].obj
  /\ result = "MissingAttributeError" =>
       /\ pc = "done"
       /\ ~ENABLED Next
       /\ \E t \in TargetTags : ~HasElement(fs[InputPath].obj, t)
       /\ Len(writes) = cur.k - 1
       /\ \A i \in 1..Len(writes) : writes[i].k = i
       /\ \A i \in LinesOf(cur.k) : log[i].ev \notin {"START write", "END write", "END"}
       /\ fs = Replay(fs0, writes)

\* C10 witness: the second pair lacked its Study ID after the first pair was
\* written; three of its attributes had been replaced in memory.
C10_Witness ==
  /\ result = "MissingAttributeError"
  /\ cur.k = 2 /\ Len(writes) = 1
  /\ ~HasElement(fs[InputPath].obj, TagStudyID)
  /\ obj[TagPatientName].value = "puripuri^2100"

====
